---- MODULE Spec2Model ----
(***************************************************************************)
(* Model of the to_markdown_table crate (src/src/lib.rs).                  *)
(*                                                                         *)
(* A String is a sequence of Unicode code points; String::len() is the     *)
(* UTF-8 byte length, while the `{text:width$}` format specification pads  *)
(* by number of chars.  A TableRow is a sequence of Strings.  An Option is *)
(* a sequence of length 0 (None) or 1 (Some).  Rust's 0-based indices are  *)
(* kept at the operators' interfaces.                                      *)
(***************************************************************************)
EXTENDS Integers, Sequences, FiniteSets, TLC

VARIABLES phase, header, rows, op, argHeader, argRows, argRow, result, output

vars == <<phase, header, rows, op, argHeader, argRows, argRow, result, output>>

(* ---------------------------- bounds ----------------------------------- *)
MaxCols == 2
MaxInitRows == 2
MaxRows == 2

(* ---------------------------- characters ------------------------------- *)
SPACE == 32
DASH == 45
PIPE == 124
NEWLINE == 10

\* "abc" (3 chars, 3 bytes) and "\u00e9\u00e9" (2 chars, 4 bytes)
CellValues == { <<97, 98, 99>>, <<233, 233>> }

RowsOfWidth(w) == [1..w -> CellValues]
RowValues == UNION { RowsOfWidth(w) : w \in 0..MaxCols }
OptionRows == { <<>> } \cup { <<r>> : r \in RowValues }
RowSeqs(n) == UNION { [1..k -> RowValues] : k \in 0..n }

(* ---------------------------- results ---------------------------------- *)
Ok == [kind |-> "Ok", expected |-> 0, actual |-> 0]
InvalidRowLength(e, a) == [kind |-> "InvalidRowLength", expected |-> e, actual |-> a]
NoRowsSpecified == [kind |-> "NoRowsSpecified", expected |-> 0, actual |-> 0]
Panic == [kind |-> "Panic", expected |-> 0, actual |-> 0]
NoResult == [kind |-> "None", expected |-> 0, actual |-> 0]

(* ---------------------------- strings ---------------------------------- *)
\* char::len_utf8
Utf8Len(cp) == IF cp < 128 THEN 1 ELSE IF cp < 2048 THEN 2 ELSE IF cp < 65536 THEN 3 ELSE 4

RECURSIVE StrLenFrom(_, _)
StrLenFrom(s, i) == IF i > Len(s) THEN 0 ELSE Utf8Len(s[i]) + StrLenFrom(s, i + 1)

\* String::len(): the number of bytes
StrLen(s) == StrLenFrom(s, 1)

\* s.chars().count()
CharCount(s) == Len(s)

\* str::repeat
repeat(cp, n) == [i \in 1..n |-> cp]

\* mutant: right-aligned
pad_right(text, width) ==
    IF CharCount(text) >= width THEN text
    ELSE repeat(SPACE, width - CharCount(text)) \o text

\* the `{text:width$}` format: left-aligned, filled with spaces up to width
\* chars, never truncated
pad(text, width) ==
    IF CharCount(text) >= width THEN text
    ELSE text \o repeat(SPACE, width - CharCount(text))

RECURSIVE Concat(_)
Concat(ss) == IF ss = <<>> THEN <<>> ELSE Head(ss) \o Concat(Tail(ss))

unwrap_or(o, d) == IF o = <<>> THEN d ELSE o[1]

(* ---------------------------- MarkdownTable ---------------------------- *)
\* mutant: only a longer row is rejected
validate_row_length_lt(h, new_row) ==
    LET header_len == Len(h)
        new_len == Len(new_row)
    IN IF header_len < new_len THEN InvalidRowLength(header_len, new_len) ELSE Ok

validate_row_length(h, new_row) ==
    LET header_len == Len(h)
        new_len == Len(new_row)
    IN IF header_len # new_len THEN InvalidRowLength(header_len, new_len) ELSE Ok

\* header.clone().or_else(|| Some(rows[0].clone())).unwrap() panics on rows[0]
RefPanics(h, rs) == h = <<>> /\ rs = <<>>
RefRow(h, rs) == IF h # <<>> THEN h[1] ELSE rs[1]

\* mutant: every row is checked and the last failure is returned
RECURSIVE new_validate_last(_, _, _)
new_validate_last(h, rs, i) ==
    IF i > Len(rs) THEN Ok
    ELSE LET r == validate_row_length(RefRow(h, rs), rs[i])
             rest == new_validate_last(h, rs, i + 1)
         IN IF rest.kind # "Ok" THEN rest ELSE r

\* the loop of new: the first failing validation is returned by `?`
RECURSIVE new_validate(_, _, _)
new_validate(h, rs, i) ==
    IF i > Len(rs) THEN Ok
    ELSE LET r == validate_row_length(RefRow(h, rs), rs[i])
         IN IF r.kind # "Ok" THEN r ELSE new_validate(h, rs, i + 1)

cols(h, rs) == IF h # <<>> THEN Len(h[1]) ELSE Len(rs[1])

\* TableRow::col_len
row_col_len(row, col) == StrLen(row[col + 1])

RECURSIVE fold_col_len(_, _, _, _)
fold_col_len(rs, col, i, acc) ==
    IF i > Len(rs) THEN acc
    ELSE fold_col_len(rs, col, i + 1,
                      IF row_col_len(rs[i], col) > acc THEN row_col_len(rs[i], col) ELSE acc)

\* mutant: the header cell is not taken into account
col_len_rows_only(h, rs, col) ==
    IF col >= cols(h, rs) THEN <<>>
    ELSE <<fold_col_len(rs, col, 1, 0)>>

\* MarkdownTable::col_len
col_len(h, rs, col) ==
    IF col >= cols(h, rs) THEN <<>>
    ELSE LET cl == fold_col_len(rs, col, 1, 0)
         IN IF h # <<>>
            THEN (IF cl > StrLen(h[1][col + 1]) THEN <<cl>> ELSE <<StrLen(h[1][col + 1])>>)
            ELSE <<cl>>

fmt_cell(text) == <<PIPE, SPACE>> \o text \o <<SPACE>>

\* the arguments fmt_line passes to its closure: every column with its length
PredArgs(h, rs) ==
    { <<col, unwrap_or(col_len(h, rs, col), 0)>> : col \in 0..(cols(h, rs) - 1) }

\* pred is the closure, a function of <<col, len>>
fmt_line(h, rs, pred) ==
    Concat([c \in 1..cols(h, rs) |->
              LET len == unwrap_or(col_len(h, rs, c - 1), 0)
              IN fmt_cell(pad(pred[<<c - 1, len>>], len))])
      \o <<PIPE, NEWLINE>>

\* mutant: no separator line
fmt_no_separator(h, rs) ==
    (IF h # <<>>
     THEN fmt_line(h, rs, [a \in PredArgs(h, rs) |-> h[1][a[1] + 1]])
     ELSE <<>>)
      \o Concat([i \in 1..Len(rs) |->
                   fmt_line(h, rs, [a \in PredArgs(h, rs) |-> rs[i][a[1] + 1]])])

\* impl Display for MarkdownTable
fmt(h, rs) ==
    (IF h # <<>>
     THEN fmt_line(h, rs, [a \in PredArgs(h, rs) |-> h[1][a[1] + 1]])
            \o fmt_line(h, rs, [a \in PredArgs(h, rs) |-> repeat(DASH, a[2])])
     ELSE <<>>)
      \o Concat([i \in 1..Len(rs) |->
                   fmt_line(h, rs, [a \in PredArgs(h, rs) |-> rs[i][a[1] + 1]])])

\* an index out of bounds while rendering
FmtPanics(h, rs) ==
    /\ h # <<>> \/ rs # <<>>
    /\ \E i \in 1..Len(rs) : Len(rs[i]) < cols(h, rs)

(* ---------------------------- state machine ---------------------------- *)
Init ==
    /\ phase = "start"
    /\ header = <<>>
    /\ rows = <<>>
    /\ op = "none"
    /\ argHeader = <<>>
    /\ argRows = <<>>
    /\ argRow = <<>>
    /\ result = NoResult
    /\ output = <<>>

new(h, rs) ==
    /\ phase = "start"
    /\ op' = "new"
    /\ argHeader' = h
    /\ argRows' = rs
    /\ argRow' = <<>>
    /\ output' = <<>>
    /\ LET r == new_validate(h, rs, 1)
       IN /\ result' = r
          /\ IF r.kind = "Ok"
             THEN phase' = "live" /\ header' = h /\ rows' = rs
             ELSE phase' = "failed" /\ UNCHANGED <<header, rows>>

\* the table grows up to MaxRows rows; a call that is rejected is always possible
CanCall(row) ==
    \/ Len(rows) < MaxRows
    \/ ~RefPanics(header, rows) /\ validate_row_length(RefRow(header, rows), row).kind # "Ok"

\* mutant: the row is pushed before it is validated
add_row_push_first(row) ==
    /\ phase = "live"
    /\ CanCall(row)
    /\ op' = "add_row"
    /\ argRow' = row
    /\ argHeader' = <<>>
    /\ argRows' = <<>>
    /\ output' = <<>>
    /\ IF RefPanics(header, rows)
       THEN phase' = "aborted" /\ result' = Panic /\ UNCHANGED <<header, rows>>
       ELSE /\ result' = validate_row_length(RefRow(header, rows), row)
            /\ rows' = Append(rows, row)
            /\ UNCHANGED <<phase, header>>

\* mutant: the row is inserted in front
add_row_front(row) ==
    /\ phase = "live"
    /\ CanCall(row)
    /\ op' = "add_row"
    /\ argRow' = row
    /\ argHeader' = <<>>
    /\ argRows' = <<>>
    /\ output' = <<>>
    /\ IF RefPanics(header, rows)
       THEN phase' = "aborted" /\ result' = Panic /\ UNCHANGED <<header, rows>>
       ELSE LET r == validate_row_length(RefRow(header, rows), row)
            IN /\ result' = r
               /\ rows' = IF r.kind = "Ok" THEN <<row>> \o rows ELSE rows
               /\ UNCHANGED <<phase, header>>

add_row(row) ==
    /\ phase = "live"
    /\ CanCall(row)
    /\ op' = "add_row"
    /\ argRow' = row
    /\ argHeader' = <<>>
    /\ argRows' = <<>>
    /\ output' = <<>>
    /\ IF RefPanics(header, rows)
       THEN phase' = "aborted" /\ result' = Panic /\ UNCHANGED <<header, rows>>
       ELSE LET r == validate_row_length(RefRow(header, rows), row)
            IN /\ result' = r
               /\ rows' = IF r.kind = "Ok" THEN Append(rows, row) ELSE rows
               /\ UNCHANGED <<phase, header>>

to_string ==
    /\ phase = "live"
    /\ op' = "to_string"
    /\ argHeader' = <<>>
    /\ argRows' = <<>>
    /\ argRow' = <<>>
    /\ UNCHANGED <<header, rows>>
    /\ IF FmtPanics(header, rows)
       THEN phase' = "aborted" /\ result' = Panic /\ output' = <<>>
       ELSE phase' = phase /\ result' = Ok /\ output' = fmt(header, rows)

Next ==
    \/ phase = "start" /\ \E h \in OptionRows, rs \in RowSeqs(MaxInitRows) : new(h, rs)
    \/ phase = "live" /\ \E row \in RowValues : add_row(row)
    \/ to_string

Spec == Init /\ [][Next]_vars

(* ---------------------------- vocabulary of the claims ----------------- *)
HasWidth == header # <<>> \/ rows # <<>>

\* the header's cell count if a header exists, otherwise the first data
\* row's cell count
EstablishedWidth == IF header # <<>> THEN Len(header[1]) ELSE Len(rows[1])

\* the padding width applied to every cell of column c when rendering
DisplayWidth(c) == unwrap_or(col_len(header, rows, c), 0)

SetMax(S) == IF S = {} THEN 0 ELSE CHOOSE m \in S : \A x \in S : x <= m

\* the character counts of all cells of column c, header included
ColumnCharCounts(c) ==
    { CharCount(rows[i][c + 1]) : i \in 1..Len(rows) }
      \cup (IF header # <<>> THEN { CharCount(header[1][c + 1]) } ELSE {})

RECURSIVE SplitFrom(_, _, _, _)
SplitFrom(s, sep, i, cur) ==
    IF i > Len(s) THEN <<cur>>
    ELSE IF s[i] = sep THEN <<cur>> \o SplitFrom(s, sep, i + 1, <<>>)
    ELSE SplitFrom(s, sep, i + 1, Append(cur, s[i]))

\* the pieces of s between the occurrences of sep
Split(s, sep) == SplitFrom(s, sep, 1, <<>>)

\* the newline-terminated lines of a text, without their newlines
Lines(s) == LET parts == Split(s, NEWLINE) IN SubSeq(parts, 1, Len(parts) - 1)
NewlineTerminated(s) == s = <<>> \/ s[Len(s)] = NEWLINE

RECURSIVE Trim(_)
Trim(s) ==
    IF s = <<>> THEN s
    ELSE IF Head(s) = SPACE THEN Trim(Tail(s))
    ELSE IF s[Len(s)] = SPACE THEN Trim(SubSeq(s, 1, Len(s) - 1))
    ELSE s

\* the cells read back from a rendered line
ParseLine(line) ==
    LET parts == Split(line, PIPE)
    IN [k \in 1..(Len(parts) - 2) |-> Trim(parts[k + 1])]

RECURSIVE SumWidths(_)
SumWidths(c) == IF c = 0 THEN 0 ELSE DisplayWidth(c - 1) + 3 + SumWidths(c - 1)

Rendered == op = "to_string" /\ phase = "live"

\* the texts a rendered line is made of: header cells, dashes or row cells
LineTexts(k) ==
    LET w == EstablishedWidth
        hl == IF header # <<>> THEN 2 ELSE 0
    IN IF header # <<>> /\ k = 1 THEN header[1]
       ELSE IF header # <<>> /\ k = 2 THEN [c \in 1..w |-> repeat(DASH, DisplayWidth(c - 1))]
       ELSE rows[k - hl]

\* line is "| " + text_c + " " for each column, then "|"
LineLayout(line, texts) ==
    /\ Len(line) = SumWidths(EstablishedWidth) + 1
    /\ line[Len(line)] = PIPE
    /\ \A c \in 0..(EstablishedWidth - 1) :
         LET start == SumWidths(c)
             w == DisplayWidth(c)
             t == texts[c + 1]
         IN /\ line[start + 1] = PIPE
            /\ line[start + 2] = SPACE
            /\ CharCount(t) <= w
            /\ \A j \in 1..w :
                 line[start + 2 + j] = IF j <= CharCount(t) THEN t[j] ELSE SPACE
            /\ line[start + 3 + w] = SPACE

ExampleHeader == << <<78, 97, 109, 101>>, <<65, 103, 101>> >>
ExampleRows ==
    << << <<74, 101, 115, 115, 105, 99, 97>>, <<50, 56>> >>,
       << <<68, 101, 110, 110, 105, 115>>, <<50, 50>> >> >>
ExampleOutput ==
    <<124, 32, 78, 97, 109, 101, 32, 32, 32, 32, 124, 32, 65, 103, 101, 32, 124, 10,
      124, 32, 45, 45, 45, 45, 45, 45, 45, 32, 124, 32, 45, 45, 45, 32, 124, 10,
      124, 32, 74, 101, 115, 115, 105, 99, 97, 32, 124, 32, 50, 56, 32, 32, 124, 10,
      124, 32, 68, 101, 110, 110, 105, 115, 32, 32, 124, 32, 50, 50, 32, 32, 124, 10>>

(* ---------------------------- claims ----------------------------------- *)
\* C1: in every table produced by a successful new and any sequence of
\* add_row calls, the header (if present) and every data row have the
\* established width as their cell count.
C1_UniformWidth ==
    (phase \in {"live", "aborted"} /\ HasWidth) =>
        /\ header # <<>> => Len(header[1]) = EstablishedWidth
        /\ \A i \in 1..Len(rows) : Len(rows[i]) = EstablishedWidth

C1_Witness ==
    /\ op = "add_row" /\ result.kind = "InvalidRowLength"
    /\ header = <<>> /\ Len(rows) >= 2
    /\ EstablishedWidth >= 1

\* C2: add_row with a row whose cell count differs from the established
\* width returns InvalidRowLength(established width, row's cell count) and
\* leaves header and rows as they were.
C2_FailedAddRow ==
    [][(phase = "live" /\ op' = "add_row" /\ HasWidth
          /\ Len(argRow') # EstablishedWidth)
        => /\ result' = InvalidRowLength(EstablishedWidth, Len(argRow'))
           /\ header' = header
           /\ rows' = rows]_vars

C2_Witness ==
    /\ op = "add_row" /\ result.kind = "InvalidRowLength"
    /\ rows # <<>> /\ result.actual # result.expected

\* C3: new checks the rows in order against the reference width; it returns
\* InvalidRowLength(reference width, cell count of the first mismatching
\* row) and produces no table, or succeeds and stores header and rows as
\* given.
C3_NewValidates ==
    op = "new" =>
        LET ref == IF argHeader # <<>> THEN Len(argHeader[1]) ELSE Len(argRows[1])
            bad == { i \in 1..Len(argRows) : Len(argRows[i]) # ref }
        IN IF bad = {}
           THEN result = Ok /\ phase = "live" /\ header = argHeader /\ rows = argRows
           ELSE LET first == CHOOSE i \in bad : \A j \in bad : i <= j
                IN /\ result = InvalidRowLength(ref, Len(argRows[first]))
                   /\ phase = "failed" /\ header = <<>> /\ rows = <<>>

C3_Witness ==
    /\ op = "new" /\ result.kind = "InvalidRowLength"
    /\ argHeader # <<>> /\ Len(argRows) = 2
    /\ Len(argRows[1]) # Len(argHeader[1])
    /\ Len(argRows[2]) # Len(argHeader[1])
    /\ Len(argRows[1]) # Len(argRows[2])

\* C4: the display width of every column is the maximum character count
\* (code points, not bytes) of its cells over the header and all data rows.
C4_CharCountWidth ==
    (phase = "live" /\ HasWidth) =>
        \A c \in 0..(EstablishedWidth - 1) :
            col_len(header, rows, c) = <<SetMax(ColumnCharCounts(c))>>

\* C5: rendering n data rows emits n + 2 newline-terminated lines with a
\* header (header line, separator line, data lines) and n lines without,
\* the data lines in the order of the stored rows, which is the insertion
\* order (C3: new stores the rows as given; C9: add_row appends at the end).
C5_LineCount ==
    Rendered =>
        LET ls == Lines(output)
            hl == IF header # <<>> THEN 2 ELSE 0
        IN /\ NewlineTerminated(output)
           /\ Len(ls) = Len(rows) + hl
           /\ header # <<>> =>
                /\ ParseLine(ls[1]) = header[1]
                /\ \A c \in 1..Len(header[1]) :
                     ParseLine(ls[2])[c] = repeat(DASH, DisplayWidth(c - 1))
           /\ \A i \in 1..Len(rows) : ParseLine(ls[hl + i]) = rows[i]

C5_Witness ==
    /\ Rendered /\ header # <<>> /\ Len(rows) = MaxRows
    /\ rows[1] # rows[2] /\ EstablishedWidth >= 1

\* C6: every rendered line is, column by column, "| " + text + " " and then
\* a closing "|" and a newline; the text is the cell left-aligned and padded
\* with spaces to the display width, or display-width dashes in the
\* separator line.
C6_LineFormat ==
    /\ fmt(<<ExampleHeader>>, ExampleRows) = ExampleOutput
    /\ Rendered =>
         /\ NewlineTerminated(output)
         /\ \A k \in 1..Len(Lines(output)) : LineLayout(Lines(output)[k], LineTexts(k))

C6_Witness ==
    /\ Rendered /\ header # <<>> /\ rows # <<>> /\ EstablishedWidth = MaxCols
    /\ \E i \in 1..Len(rows) : CharCount(rows[i][1]) < DisplayWidth(0)

\* C7: every add_row call returns Ok or InvalidRowLength; none aborts.
C7_NeverAborts ==
    op = "add_row" => (result.kind \in {"Ok", "InvalidRowLength"} /\ phase = "live")

\* C8: new with no header and no rows fails with NoRowsSpecified and
\* produces no table.
C8_EmptyNewFails ==
    (op = "new" /\ argHeader = <<>> /\ argRows = <<>>) =>
        (result = NoRowsSpecified /\ phase = "failed")

\* C9: a successful add_row appends the row as the last one and changes
\* nothing else; no step removes or changes a stored row or the header, so
\* the established width never changes.
C9_AppendOnly ==
    [][phase = "live" =>
         /\ header' = header
         /\ Len(rows') >= Len(rows)
         /\ SubSeq(rows', 1, Len(rows)) = rows
         /\ HasWidth => (HasWidth' /\ EstablishedWidth' = EstablishedWidth)
         /\ (op' = "add_row" /\ result'.kind = "Ok") =>
              /\ Len(argRow') = EstablishedWidth
              /\ rows' = Append(rows, argRow')]_vars

C9_Witness ==
    /\ op = "add_row" /\ result.kind = "Ok"
    /\ Len(rows) >= 2 /\ rows[Len(rows)] = argRow /\ rows[1] # argRow

\* C10: all rendered lines have the same number of characters,
\* 1 + the sum over the columns of (col_len + 3), also when byte length and
\* character count of a cell differ, and no cell is longer than its column.
C10_EqualLineLengths ==
    Rendered =>
        /\ \A k \in 1..Len(Lines(output)) :
             Len(Lines(output)[k]) = 1 + SumWidths(EstablishedWidth)
        /\ HasWidth =>
             \A c \in 0..(EstablishedWidth - 1) :
                 \A n \in ColumnCharCounts(c) : n <= DisplayWidth(c)

C10_Witness ==
    /\ Rendered /\ header # <<>> /\ rows # <<>> /\ EstablishedWidth >= 1
    /\ \E i \in 1..Len(rows) : StrLen(rows[i][1]) # CharCount(rows[i][1])
    /\ StrLen(header[1][1]) # CharCount(header[1][1])

====
